---------------------------- MODULE Spec2Model ----------------------------
(***************************************************************************)
(* Model of backend/server.py, the Ocean Hazard Alert API.                 *)
(*                                                                         *)
(* State: the reports collection of the document store, the uuid source,   *)
(* and the frame (position and locals) of every request handler that is    *)
(* in flight.  Handlers are asyncio coroutines: a handler runs without     *)
(* interruption between two awaits, so every await is a step boundary.     *)
(*                                                                         *)
(* Numbers.  The code computes priority_score and average_panic_index in   *)
(* binary floating point, and so does the model: a score is the double the *)
(* code computes, the sort compares doubles, and round() rounds the double *)
(* of the quotient.  Where a property names a decimal value, a score is    *)
(* read in thousandths (2.2 is 2200), an average in tenths (50.0 is 500).  *)
(* Heatmap intensity is never compared with another intensity and is held  *)
(* in thousandths (0.3 is 300).                                            *)
(***************************************************************************)
EXTENDS Integers, Sequences, FiniteSets, TLC

VARIABLES
    store,      \* db.reports: the stored documents, in retrieval order
    nextId,     \* the uuid source: ids below nextId have been handed out
    creates,    \* frames of the create_report requests in flight, per slot
    call,       \* the request of a single-await handler, awaiting its store call
    resp,       \* the last response of a single-await handler
    stats       \* the frame of get_dashboard_stats (five awaits)

vars == <<store, nextId, creates, call, resp, stats>>

----------------------------------------------------------------------------
(* Bounds of the model *)

\* create_report requests accepted in one run of Spec, StatsSpec and LiveSpec
MaxReports == 2

\* create_report requests accepted in one run of BulkSpec
MaxBulk == 11

\* server.py:247 priority_reports[:10]
TopN == 10

\* server.py:58 panic_index: Optional[int] = None  # 0-100
MaxPanic == 100

\* concurrent create_report requests
Slots == {"a", "b"}

----------------------------------------------------------------------------
(* JSON values, as json.loads and the store hold them *)

JInt(n) == [k |-> "int", n |-> n, s |-> ""]
JStr(s) == [k |-> "str", n |-> 0, s |-> s]
\* a string that holds the decimal digits of n ("50", "-3")
JNumStr(n) == [k |-> "numstr", n |-> n, s |-> ""]
JNull == [k |-> "null", n |-> 0, s |-> ""]
\* a key the object does not have
JMissing == [k |-> "missing", n |-> 0, s |-> ""]

\* dict.get(key, default)
Get(obj, key, default) ==
    IF obj[key].k = "missing" THEN default ELSE obj[key]

Obj(sev, panic, cat, why) ==
    [severity |-> sev, panic_index |-> panic, ai_category |-> cat, reasoning |-> why]

EmptyObj == Obj(JMissing, JMissing, JMissing, JMissing)

(* What the external call of classify_hazard_with_ai can do:               *)
(*   raise      chat.send_message raises an Exception                      *)
(*   cancel     the await raises a BaseException that is no Exception:     *)
(*              asyncio.CancelledError, KeyboardInterrupt                  *)
(*   text       it returns text json.loads rejects                         *)
(*   nonobject  it returns JSON that is not an object (a list, a number)   *)
(*   object     it returns a JSON object                                   *)
Raises == [kind |-> "raise", obj |-> EmptyObj]
Cancelled == [kind |-> "cancel", obj |-> EmptyObj]
Unparsable == [kind |-> "text", obj |-> EmptyObj]
NonObject == [kind |-> "nonobject", obj |-> EmptyObj]
Object(o) == [kind |-> "object", obj |-> o]
NoOutcome == [kind |-> "none", obj |-> EmptyObj]

HighAlert == Object(Obj(JStr("High"), JInt(100), JStr("Storm surge"), JStr("r")))
LowCalm == Object(Obj(JStr("Low"), JInt(0), JStr("Swell"), JStr("r")))
AllNull == Object(Obj(JNull, JNull, JNull, JNull))
OverRange == Object(Obj(JStr("Critical"), JInt(150), JStr("Storm surge"), JStr("r")))
UnderRange == Object(Obj(JStr("Low"), JInt(-100), JStr("Swell"), JStr("r")))
WordPanic == Object(Obj(JStr("High"), JStr("high"), JMissing, JMissing))
DigitPanic == Object(Obj(JStr("High"), JNumStr(50), JMissing, JMissing))

Outcomes ==
    {Raises, Cancelled, Unparsable, NonObject, Object(EmptyObj), HighAlert,
     LowCalm, AllNull, OverRange, UnderRange, WordPanic, DigitPanic}

BulkOutcomes == {Raises, HighAlert}

StatsOutcomes == {Raises, Cancelled, HighAlert, LowCalm, AllNull, OverRange}

LiveOutcomes == {Raises, Cancelled, Unparsable, NonObject, HighAlert, AllNull}

HazardTypes == {"Flood", "Cyclone"}

----------------------------------------------------------------------------
(* classify_hazard_with_ai *)

Fallback(hazard_type, why) ==
    Obj(JStr("Medium"), JInt(50), JStr(hazard_type), JStr(why))

Returns(v) == [raised |-> FALSE, value |-> v]
Propagates == [raised |-> TRUE, value |-> EmptyObj]

classify_hazard_with_ai(outcome, hazard_type) ==
    CASE outcome.kind = "object" ->
            \* lines 116-122: every key read with its own default
            Returns(Obj(Get(outcome.obj, "severity", JStr("Medium")),
                        Get(outcome.obj, "panic_index", JInt(50)),
                        Get(outcome.obj, "ai_category", JStr(hazard_type)),
                        Get(outcome.obj, "reasoning", JStr("AI analysis completed"))))
      [] outcome.kind = "text" ->
            \* lines 123-130: json.JSONDecodeError
            Returns(Fallback(hazard_type, "AI analysis completed"))
      [] outcome.kind \in {"raise", "nonobject"} ->
            \* lines 131-138: the call raised an Exception, or result.get
            \* raised AttributeError on a value that is not a dict
            Returns(Fallback(hazard_type, "Default classification applied"))
      [] OTHER ->
            \* line 131 catches Exception only: anything else goes on to
            \* the caller
            Propagates

----------------------------------------------------------------------------
(* create_report *)

IdleCreate ==
    [pc |-> "idle", id |-> 0, hazard_type |-> "", outcome |-> NoOutcome,
     ai_result |-> EmptyObj]

\* report.dict() of lines 207-212: the fields the read paths use
ReportDict(f) ==
    [id |-> f.id, hazard_type |-> f.hazard_type,
     severity |-> f.ai_result.severity,
     panic_index |-> f.ai_result.panic_index,
     ai_category |-> f.ai_result.ai_category]

StatsBusy == stats.pc \notin {"idle", "done"}

\* a write to the store that lands between two reads of get_dashboard_stats
MarkWrite == stats' = IF StatsBusy THEN [stats EXCEPT !.dirty = TRUE] ELSE stats

\* lines 169-206: the request is valid; the report gets its uuid and the
\* handler awaits the classification
CreateStart(c, max, types) ==
    /\ creates[c].pc = "idle"
    /\ nextId <= max
    /\ \E h \in types :
          creates' = [creates EXCEPT ![c] =
                         [IdleCreate EXCEPT !.pc = "classify", !.id = nextId,
                                            !.hazard_type = h]]
    /\ nextId' = nextId + 1
    /\ UNCHANGED <<store, call, resp, stats>>

\* lines 206-214: the classification resolves; its result is written to the
\* report and the handler awaits insert_one, or what it raised ends the
\* handler at line 206
CreateClassified(c, outcomes) ==
    /\ creates[c].pc = "classify"
    /\ \E o \in outcomes :
          LET ai_result == classify_hazard_with_ai(o, creates[c].hazard_type)
          IN  creates' = [creates EXCEPT ![c] =
                             IF ai_result.raised THEN IdleCreate
                             ELSE [@ EXCEPT !.pc = "insert", !.outcome = o,
                                            !.ai_result = ai_result.value]]
    /\ UNCHANGED <<store, nextId, call, resp, stats>>

\* lines 214-216: insert_one lands and the report is returned
CreateInsert(c) ==
    /\ creates[c].pc = "insert"
    /\ store' = Append(store, ReportDict(creates[c]))
    /\ creates' = [creates EXCEPT ![c] = IdleCreate]
    /\ MarkWrite
    /\ UNCHANGED <<nextId, call, resp>>

----------------------------------------------------------------------------
(* Requests of the handlers with a single await *)

NoCall == [op |-> "none", id |-> 0]
NoResp == [op |-> "none", status |-> 0, body |-> <<>>]

Receive(op, id) ==
    /\ call = NoCall
    /\ call' = [op |-> op, id |-> id]
    /\ resp' = NoResp
    /\ UNCHANGED <<store, nextId, creates, stats>>

----------------------------------------------------------------------------
(* delete_report *)

Ids(s) == {s[i].id : i \in 1..Len(s)}

\* delete_one with a filter that matches too much
RECURSIVE delete_one_bad(_, _)
delete_one_bad(s, id) ==
    IF s = <<>> THEN <<>>
    ELSE IF Head(s).id >= id THEN Tail(s)
    ELSE <<Head(s)>> \o delete_one_bad(Tail(s), id)

\* delete_one({"id": id}): the first document with that id goes
RECURSIVE delete_one(_, _)
delete_one(s, id) ==
    IF s = <<>> THEN <<>>
    ELSE IF Head(s).id = id THEN Tail(s)
    ELSE <<Head(s)>> \o delete_one(Tail(s), id)

DeleteRequest(max) == \E id \in 1..max : Receive("delete", id)

delete_report ==
    /\ call.op = "delete"
    /\ LET after == delete_one(store, call.id)
           deleted_count == Len(store) - Len(after)
       IN /\ store' = after
          /\ resp' = [op |-> "delete",
                      status |-> IF deleted_count = 0 THEN 404 ELSE 200,
                      body |-> <<>>]
          /\ stats' = IF deleted_count > 0 /\ StatsBusy
                      THEN [stats EXCEPT !.dirty = TRUE] ELSE stats
    /\ call' = NoCall
    /\ UNCHANGED <<nextId, creates>>

----------------------------------------------------------------------------
(* Binary floating point.  A Python float is an IEEE 754 double: a sign, a *)
(* significand m of 53 bits and an exponent e, of value m * 2^e.  A        *)
(* significand is held as a sequence of limbs of 14 bits, lowest first,    *)
(* and <<>> is zero.  Every operation returns the double nearest to the    *)
(* exact result, a tie going to the even significand, as the hardware      *)
(* does.                                                                   *)

Limb == 2^14

RECURSIVE Big(_)
Big(n) == IF n = 0 THEN <<>> ELSE <<n % Limb>> \o Big(n \div Limb)

RECURSIVE Small(_)
Small(a) == IF a = <<>> THEN 0 ELSE a[1] + Limb * Small(Tail(a))

RECURSIVE Trim(_)
Trim(a) ==
    IF a = <<>> THEN <<>>
    ELSE IF a[Len(a)] = 0 THEN Trim(SubSeq(a, 1, Len(a) - 1)) ELSE a

Rest(a) == IF a = <<>> THEN <<>> ELSE Tail(a)
Low(a) == IF a = <<>> THEN 0 ELSE a[1]

RECURSIVE AddC(_, _, _)
AddC(a, b, c) ==
    IF a = <<>> /\ b = <<>> THEN Big(c)
    ELSE LET x == Low(a) + Low(b) + c
         IN  <<x % Limb>> \o AddC(Rest(a), Rest(b), x \div Limb)

AddB(a, b) == AddC(a, b, 0)

\* a - b, for a >= b
RECURSIVE SubC(_, _, _)
SubC(a, b, c) ==
    IF a = <<>> THEN <<>>
    ELSE LET x == a[1] - Low(b) - c
         IN  IF x < 0 THEN <<x + Limb>> \o SubC(Tail(a), Rest(b), 1)
             ELSE <<x>> \o SubC(Tail(a), Rest(b), 0)

SubB(a, b) == Trim(SubC(a, b, 0))

\* -1, 0 or 1
RECURSIVE CmpB(_, _)
CmpB(a, b) ==
    IF Len(a) # Len(b) THEN (IF Len(a) < Len(b) THEN -1 ELSE 1)
    ELSE IF a = <<>> THEN 0
    ELSE IF a[Len(a)] # b[Len(b)] THEN (IF a[Len(a)] < b[Len(b)] THEN -1 ELSE 1)
    ELSE CmpB(Trim(SubSeq(a, 1, Len(a) - 1)), Trim(SubSeq(b, 1, Len(b) - 1)))

\* a * m + c, for m below Limb
RECURSIVE MulC(_, _, _)
MulC(a, m, c) ==
    IF a = <<>> THEN Big(c)
    ELSE LET x == a[1] * m + c
         IN  <<x % Limb>> \o MulC(Tail(a), m, x \div Limb)

\* the number whose limbs are the sums s, each below 2^31 - 2^17
RECURSIVE Carry(_, _)
Carry(s, c) ==
    IF s = <<>> THEN Big(c)
    ELSE <<(s[1] + c) % Limb>> \o Carry(Tail(s), (s[1] + c) \div Limb)

\* limb i of a significand of at most four limbs
At(a, i) == IF i <= Len(a) THEN a[i] ELSE 0

\* a * b for significands of at most four limbs: the sums of the columns
\* of the long multiplication, then the carries
MulB(a, b) ==
    LET a1 == At(a, 1)  a2 == At(a, 2)  a3 == At(a, 3)  a4 == At(a, 4)
        b1 == At(b, 1)  b2 == At(b, 2)  b3 == At(b, 3)  b4 == At(b, 4)
    IN  Trim(Carry(<<a1 * b1,
                     a1 * b2 + a2 * b1,
                     a1 * b3 + a2 * b2 + a3 * b1,
                     a1 * b4 + a2 * b3 + a3 * b2 + a4 * b1,
                     a2 * b4 + a3 * b3 + a4 * b2,
                     a3 * b4 + a4 * b3,
                     a4 * b4>>, 0))

\* quotient and remainder of a by d, for d below Limb
RECURSIVE DivC(_, _)
DivC(a, d) ==
    IF a = <<>> THEN [q |-> <<>>, r |-> 0]
    ELSE LET hi == DivC(Tail(a), d)
             x == hi.r * Limb + a[1]
         IN  [q |-> <<x \div d>> \o hi.q, r |-> x % d]

DivB(a, d) == LET x == DivC(a, d) IN [q |-> Trim(x.q), r |-> x.r]

ShiftLeft(a, s) ==
    IF a = <<>> THEN <<>>
    ELSE [i \in 1..(s \div 14) |-> 0] \o MulC(a, 2^(s % 14), 0)

ShiftRight(a, s) ==
    IF Len(a) <= s \div 14 THEN <<>>
    ELSE DivB(SubSeq(a, (s \div 14) + 1, Len(a)), 2^(s % 14)).q

BitLen(a) ==
    IF a = <<>> THEN 0
    ELSE 14 * (Len(a) - 1) + (CHOOSE k \in 1..14 : 2^(k - 1) <= a[Len(a)] /\ a[Len(a)] < 2^k)

\* a / 2^s to the nearest integer, a tie to the even one.  The bits shifted
\* out are the limbs below limb k, and below them the remainder r of limb
\* k by 2^b; they are compared with a half, 2^(s - 1)
RoundShift(a, s) ==
    IF s <= 0 THEN ShiftLeft(a, 0 - s)
    ELSE IF Len(a) < s \div 14 THEN <<>>
    ELSE LET k == s \div 14
             b == s % 14
             qr == DivB(SubSeq(a, k + 1, Len(a)), 2^b)
             q == qr.q
             top == IF b > 0 THEN qr.r ELSE a[k]
             half == IF b > 0 THEN 2^(b - 1) ELSE 2^13
             below == IF b > 0 THEN k ELSE k - 1
             more == \E i \in 1..below : a[i] # 0
             c == IF top # half THEN (IF top < half THEN -1 ELSE 1)
                  ELSE IF more THEN 1 ELSE 0
         IN  IF c < 0 \/ (c = 0 /\ Low(q) % 2 = 0) THEN q ELSE AddB(q, <<1>>)

FZero == [neg |-> FALSE, m |-> <<>>, e |-> 0]

\* the double nearest to n * 2^e
RoundD(neg, n, e) ==
    IF n = <<>> THEN FZero
    ELSE LET s == BitLen(n) - 53
             m == RoundShift(n, s)
         IN  IF BitLen(m) > 53
             THEN [neg |-> neg, m |-> ShiftRight(m, 1), e |-> e + s + 1]
             ELSE [neg |-> neg, m |-> m, e |-> e + s]

\* float(p)
FromInt(p) == RoundD(p < 0, Big(IF p < 0 THEN 0 - p ELSE p), 0)

\* x / d for an integer d in 1..Limb-1: the quotient is taken 28 bits
\* further than x and its last bit says whether anything is left over
DivD(x, d) ==
    LET qr == DivB(ShiftLeft(x.m, 28), d)
    IN  RoundD(x.neg, MulC(qr.q, 2, IF qr.r = 0 THEN 0 ELSE 1), x.e - 29)

MulD(x, y) == RoundD(x.neg # y.neg, MulB(x.m, y.m), x.e + y.e)

AddD(x, y) ==
    IF x.m = <<>> THEN y
    ELSE IF y.m = <<>> THEN x
    ELSE LET e == IF x.e < y.e THEN x.e ELSE y.e
             a == ShiftLeft(x.m, x.e - e)
             b == ShiftLeft(y.m, y.e - e)
             c == CmpB(a, b)
         IN  IF x.neg = y.neg THEN RoundD(x.neg, AddB(a, b), e)
             ELSE IF c = 0 THEN FZero
             ELSE IF c > 0 THEN RoundD(x.neg, SubB(a, b), e)
             ELSE RoundD(y.neg, SubB(b, a), e)

\* x >= y
GeD(x, y) ==
    IF x = y THEN TRUE
    ELSE IF x.neg # y.neg THEN y.neg
    ELSE LET e == IF x.e < y.e THEN x.e ELSE y.e
             c == CmpB(ShiftLeft(x.m, x.e - e), ShiftLeft(y.m, y.e - e))
         IN  IF x.neg THEN c <= 0 ELSE c >= 0

\* the literals 0.6 and 0.4: the doubles nearest to 3/5 and 2/5
F06 == DivD(FromInt(3), 5)
F04 == DivD(FromInt(2), 5)

\* x * k to the nearest integer, for k below Limb: x read in units of 1/k
Nearest(x, k) ==
    LET t == Small(RoundShift(MulC(x.m, k, 0), 0 - x.e))
    IN  IF x.neg THEN 0 - t ELSE t

\* round(x, 1) in tenths: the tenth nearest to the value the double holds
RoundTenths(x) == Nearest(x, 10)

\* a score in thousandths
Thousandths(x) == Nearest(x, 1000)

----------------------------------------------------------------------------
(* The HazardReport built from a stored document, lines 49-61 *)

\* pydantic accepts the document: panic_index an integer, a string of
\* digits or None, severity and ai_category a string or None
Validates(r) ==
    /\ r.panic_index.k \in {"int", "numstr", "null"}
    /\ r.severity.k \in {"str", "numstr", "null"}
    /\ r.ai_category.k \in {"str", "numstr", "null"}

AllValidate(reports) == \A i \in 1..Len(reports) : Validates(reports[i])

\* HazardReport built from the document r: a panic_index given as a string
\* of digits becomes the integer
HazardReport(r) ==
    IF r.panic_index.k = "numstr"
    THEN [r EXCEPT !.panic_index = JInt(r.panic_index.n)]
    ELSE r

\* (report.panic_index or 50): None and 0 are both falsy
PanicOr50(r) ==
    IF r.panic_index.k = "int" /\ r.panic_index.n # 0 THEN r.panic_index.n ELSE 50

Min(a, b) == IF a <= b THEN a ELSE b

----------------------------------------------------------------------------
(* get_priority_reports *)

\* line 234-235: severity_weights.get(report.severity, 2)
priority_severity_weights(sev) ==
    CASE sev = JStr("Low") -> 1
      [] sev = JStr("Medium") -> 2
      [] sev = JStr("High") -> 3
      [] OTHER -> 2

\* lines 235-237: (severity_score * 0.6) + (panic_score * 0.4), the double
priority_score(r) ==
    LET severity_score == FromInt(priority_severity_weights(r.severity))
        panic_score == DivD(FromInt(PanicOr50(r)), 100)
    IN  AddD(MulD(severity_score, F06), MulD(panic_score, F04))

\* lines 231-242: the report as HazardReport holds it, its score as the
\* double and, for reading, in thousandths
PriorityReport(r) ==
    LET report == HazardReport(r)
        score == priority_score(report)
    IN  [report |-> report, score |-> score, priority_score |-> Thousandths(score)]

\* x goes behind every entry that is not smaller: equal scores keep their order
RECURSIVE InsertDesc(_, _)
InsertDesc(x, t) ==
    IF t = <<>> THEN <<x>>
    ELSE IF GeD(Head(t).score, x.score)
         THEN <<Head(t)>> \o InsertDesc(x, Tail(t))
         ELSE <<x>> \o t

\* the same sort without reverse=True
RECURSIVE InsertAsc(_, _)
InsertAsc(x, t) ==
    IF t = <<>> THEN <<x>>
    ELSE IF GeD(x.score, Head(t).score)
         THEN <<Head(t)>> \o InsertAsc(x, Tail(t))
         ELSE <<x>> \o t

RECURSIVE SortDesc_bad(_)
SortDesc_bad(s) ==
    IF s = <<>> THEN <<>>
    ELSE InsertAsc(s[Len(s)], SortDesc_bad(SubSeq(s, 1, Len(s) - 1)))

\* line 245: list.sort(key=priority_score, reverse=True), a stable sort
RECURSIVE SortDesc(_)
SortDesc(s) ==
    IF s = <<>> THEN <<>>
    ELSE InsertDesc(s[Len(s)], SortDesc(SubSeq(s, 1, Len(s) - 1)))

\* line 247: priority_reports[:10]
Top(s) == SubSeq(s, 1, Min(TopN, Len(s)))

\* lines 229-247
priority_reports(reports) ==
    Top(SortDesc([i \in 1..Len(reports) |-> PriorityReport(reports[i])]))

get_priority_reports ==
    /\ call.op = "priority"
    /\ resp' = IF AllValidate(store)
               THEN [op |-> "priority", status |-> 200,
                     body |-> priority_reports(store)]
               ELSE [op |-> "priority", status |-> 500, body |-> <<>>]
    /\ call' = NoCall
    /\ UNCHANGED <<store, nextId, creates, stats>>

----------------------------------------------------------------------------
(* get_heatmap_data *)

\* lines 259-260, in thousandths: severity_weights.get(report.severity, 0.5)
heatmap_severity_weights(sev) ==
    CASE sev = JStr("Low") -> 300
      [] sev = JStr("Medium") -> 600
      [] sev = JStr("High") -> 1000
      [] OTHER -> 500

\* lines 260-262, in thousandths: min(intensity + panic / 200, 1.0)
final_intensity(r) == Min(heatmap_severity_weights(r.severity) + PanicOr50(r) * 5, 1000)

\* lines 264-270; lat and lng are copied from the report and not modelled
heatmap_points(reports) ==
    [i \in 1..Len(reports) |->
        LET report == HazardReport(reports[i])
        IN  [intensity |-> final_intensity(report),
             hazard_type |-> report.hazard_type,
             severity |-> report.severity]]

get_heatmap_data ==
    /\ call.op = "heatmap"
    /\ resp' = IF AllValidate(store)
               THEN [op |-> "heatmap", status |-> 200, body |-> heatmap_points(store)]
               ELSE [op |-> "heatmap", status |-> 500, body |-> <<>>]
    /\ call' = NoCall
    /\ UNCHANGED <<store, nextId, creates, stats>>

----------------------------------------------------------------------------
(* get_dashboard_stats *)

IdleStats ==
    [pc |-> "idle", total |-> 0, high |-> 0, medium |-> 0, low |-> 0,
     dirty |-> FALSE, status |-> 0, types |-> <<>>, avg |-> 0]

\* count_documents with its filter ignored
count_documents_bad(s, sev) == Len(s)

\* count_documents({"severity": sev})
count_documents(s, sev) == Cardinality({i \in 1..Len(s) : s[i].severity = JStr(sev)})

\* lines 294-298
hazard_types(reports) ==
    [h \in {reports[i].hazard_type : i \in 1..Len(reports)} |->
        Cardinality({i \in 1..Len(reports) : reports[i].hazard_type = h})]

\* line 301: sum() raises TypeError on a panic_index that is no number
Summable(reports) == \A i \in 1..Len(reports) : reports[i].panic_index.k = "int"

RECURSIVE total_panic(_)
total_panic(reports) ==
    IF reports = <<>> THEN 0
    ELSE Head(reports).panic_index.n + total_panic(Tail(reports))

\* round(num / den, 1) in tenths: the quotient is a double, and it is the
\* double that is rounded
Round1(num, den) == RoundTenths(DivD(FromInt(num), den))

\* lines 302 and 312
avg_panic(total, reports) ==
    IF total > 0 THEN Round1(total_panic(reports), total) ELSE 0

\* line 286: total_reports
StatsTotal ==
    /\ stats.pc \in {"idle", "done"}
    /\ stats' = [IdleStats EXCEPT !.pc = "high", !.total = Len(store)]
    /\ UNCHANGED <<store, nextId, creates, call, resp>>

\* line 289
StatsHigh ==
    /\ stats.pc = "high"
    /\ stats' = [stats EXCEPT !.pc = "medium", !.high = count_documents(store, "High")]
    /\ UNCHANGED <<store, nextId, creates, call, resp>>

\* line 290
StatsMedium ==
    /\ stats.pc = "medium"
    /\ stats' = [stats EXCEPT !.pc = "low", !.medium = count_documents(store, "Medium")]
    /\ UNCHANGED <<store, nextId, creates, call, resp>>

\* line 291
StatsLow ==
    /\ stats.pc = "low"
    /\ stats' = [stats EXCEPT !.pc = "find", !.low = count_documents(store, "Low")]
    /\ UNCHANGED <<store, nextId, creates, call, resp>>

\* lines 295-314: the scan, and everything computed from it
StatsFind ==
    /\ stats.pc = "find"
    /\ stats' = IF Summable(store)
                THEN [stats EXCEPT !.pc = "done", !.status = 200,
                                   !.types = hazard_types(store),
                                   !.avg = avg_panic(stats.total, store)]
                ELSE [stats EXCEPT !.pc = "done", !.status = 500]
    /\ UNCHANGED <<store, nextId, creates, call, resp>>

----------------------------------------------------------------------------
Init ==
    /\ store = <<>>
    /\ nextId = 1
    /\ creates = [c \in Slots |-> IdleCreate]
    /\ call = NoCall
    /\ resp = NoResp
    /\ stats = IdleStats

\* create_report and delete_report requests, single or concurrent
Writes(slots, max, outcomes) ==
    \/ \E c \in slots : CreateStart(c, max, HazardTypes)
    \/ \E c \in slots : CreateClassified(c, outcomes)
    \/ \E c \in slots : CreateInsert(c)
    \/ DeleteRequest(max + 1)
    \/ delete_report

Next ==
    \/ Writes(Slots, MaxReports, Outcomes)
    \/ Receive("priority", 0)
    \/ get_priority_reports
    \/ Receive("heatmap", 0)
    \/ get_heatmap_data

Spec == Init /\ [][Next]_vars

\* the writes alone
WriteNext == Writes(Slots, MaxReports, Outcomes)

WriteSpec == Init /\ [][WriteNext]_vars

\* the writes alone, where the external call ends (it returns or raises)
\* and insert_one lands
LiveNext == Writes(Slots, MaxReports, LiveOutcomes)

LiveSpec ==
    /\ Init
    /\ [][LiveNext]_vars
    /\ \A c \in Slots : WF_vars(CreateClassified(c, LiveOutcomes))
    /\ \A c \in Slots : WF_vars(CreateInsert(c))

\* get_dashboard_stats with writes between its reads
StatsNext ==
    \/ Writes({"a"}, MaxReports, StatsOutcomes)
    \/ StatsTotal
    \/ StatsHigh
    \/ StatsMedium
    \/ StatsLow
    \/ StatsFind

StatsSpec == Init /\ [][StatsNext]_vars

\* a collection larger than the priority list
BulkNext ==
    \/ CreateStart("a", MaxBulk, {"Flood"})
    \/ CreateClassified("a", BulkOutcomes)
    \/ CreateInsert("a")
    \/ Receive("priority", 0)
    \/ get_priority_reports

BulkSpec == Init /\ [][BulkNext]_vars


----------------------------------------------------------------------------
(* The scoring functions on their own: two stored reports that differ by   *)
(* one step of panic_index or by one rank of severity.                     *)

Sev3 == <<"Low", "Medium", "High">>

\* the document create_report stores when the classifier answers
\* {"severity": sev, "panic_index": p}
ScoreReport(id, sev, p) ==
    [id |-> id, hazard_type |-> "Flood", severity |-> JStr(sev),
     panic_index |-> JInt(p), ai_category |-> JStr("Flood")]

ScoreInit ==
    /\ \E k \in 1..3, p \in 0..MaxPanic :
          \/ /\ p < MaxPanic
             /\ store = <<ScoreReport(1, Sev3[k], p), ScoreReport(2, Sev3[k], p + 1)>>
          \/ /\ k < 3
             /\ store = <<ScoreReport(1, Sev3[k], p), ScoreReport(2, Sev3[k + 1], p)>>
    /\ nextId = 3
    /\ creates = [c \in Slots |-> IdleCreate]
    /\ call = NoCall
    /\ resp = NoResp
    /\ stats = IdleStats

ScoreNext ==
    \/ Receive("priority", 0)
    \/ get_priority_reports
    \/ Receive("heatmap", 0)
    \/ get_heatmap_data

ScoreSpec == ScoreInit /\ [][ScoreNext]_vars

----------------------------------------------------------------------------
(* Steps of a behaviour, named for the properties below *)

PriorityHandled == call.op = "priority" /\ call'.op = "none"
HeatmapHandled == call.op = "heatmap" /\ call'.op = "none"
DeleteHandled == call.op = "delete" /\ call'.op = "none"
StatsReturned == stats.pc = "find" /\ stats'.pc = "done"

BodyIds(body) == {body[i].report.id : i \in 1..Len(body)}

----------------------------------------------------------------------------
(* C1: the list get_priority_reports returns has at most 10 entries, is    *)
(* ordered by non-increasing priority_score, leaves out no report that     *)
(* scores strictly higher than one it holds, and is empty for an empty     *)
(* collection.                                                             *)
C1_PriorityTopTen ==
    [][PriorityHandled /\ resp'.status = 200 =>
          LET body == resp'.body
          IN  /\ Len(body) <= TopN
              /\ \A i \in 1..(Len(body) - 1) :
                    GeD(body[i].score, body[i + 1].score)
              /\ \A j \in 1..Len(store) :
                    store[j].id \notin BodyIds(body) =>
                       LET left == priority_score(HazardReport(store[j]))
                       IN  \A i \in 1..Len(body) : GeD(body[i].score, left)
              /\ (store = <<>> => body = <<>>)]_vars

\* a full list of two different scores that left an older report out
C1_Witness ==
    /\ resp.op = "priority"
    /\ resp.status = 200
    /\ Len(resp.body) = TopN
    /\ resp.body[1].priority_score > resp.body[TopN].priority_score
    /\ \E j \in 1..Len(store) :
          /\ store[j].id \notin BodyIds(resp.body)
          /\ \E i \in 1..TopN : resp.body[i].report.id > store[j].id

----------------------------------------------------------------------------
NonNull(v) == v.k \notin {"null", "missing"}

(* C2: classify_hazard_with_ai never raises and returns all four keys with *)
(* a non-null value whatever the external call does, and Medium, 50 and    *)
(* the input hazard_type when the call raises or its text is unparsable.   *)
C2_ClassifyPopulated ==
    [][\A c \in Slots :
          (creates[c].pc = "classify" /\ creates'[c].pc # "classify") =>
             LET f == creates'[c]
             IN  /\ f.pc = "insert"
                 /\ NonNull(f.ai_result.severity)
                 /\ NonNull(f.ai_result.panic_index)
                 /\ NonNull(f.ai_result.ai_category)
                 /\ NonNull(f.ai_result.reasoning)
                 /\ f.outcome.kind \in {"raise", "text"} =>
                       /\ f.ai_result.severity = JStr("Medium")
                       /\ f.ai_result.panic_index = JInt(50)
                       /\ f.ai_result.ai_category = JStr(f.hazard_type)]_vars

----------------------------------------------------------------------------
(* C3: delete_report with an id no stored report has answers 404 and       *)
(* leaves the collection as it was; with an id a stored report has, it     *)
(* removes that report and no other.                                       *)
C3_DeleteExactlyOne ==
    [][DeleteHandled =>
          IF call.id \in Ids(store)
          THEN /\ resp'.status = 200
               /\ store' = SelectSeq(store, LAMBDA r : r.id # call.id)
               /\ Len(store') = Len(store) - 1
          ELSE /\ resp'.status = 404
               /\ store' = store]_vars

\* a 404 on a collection that holds reports
C3_Witness ==
    /\ resp.op = "delete"
    /\ resp.status = 404
    /\ store # <<>>

----------------------------------------------------------------------------
Rank(sev) == CHOOSE k \in 1..3 : JStr(Sev3[k]) = sev

(* C4: for severity in Low, Medium, High and panic_index in 0..100 the     *)
(* priority_score never decreases when the severity rank rises at a fixed  *)
(* panic_index, nor when panic_index rises at a fixed severity.            *)
C4_ScoreMonotone ==
    resp.op = "priority" /\ resp.status = 200 =>
       \A i, j \in 1..Len(resp.body) :
          LET a == resp.body[i]
              b == resp.body[j]
          IN  /\ (/\ a.report.severity = b.report.severity
                  /\ a.report.panic_index.n <= b.report.panic_index.n)
                 => GeD(b.score, a.score)
              /\ (/\ a.report.panic_index = b.report.panic_index
                  /\ Rank(a.report.severity) <= Rank(b.report.severity))
                 => GeD(b.score, a.score)

----------------------------------------------------------------------------
RefPriority(r, v) ==
    /\ (r.severity = JStr("High") /\ r.panic_index = JInt(100)) => v = 2200
    /\ (r.severity = JStr("Low") /\ r.panic_index = JInt(0)) => v = 600
    /\ (r.severity = JNull /\ r.panic_index = JNull) => v = 1400

RefIntensity(r, v) ==
    /\ (r.severity = JStr("High") /\ r.panic_index = JInt(100)) => v = 1000
    /\ (r.severity = JStr("Low") /\ r.panic_index = JInt(0)) => v = 300
    /\ (r.severity = JNull /\ r.panic_index = JNull) => v = 750

(* C5: High with 100 scores 2.2 and intensity 1.0; Low with 0 scores 0.6   *)
(* and intensity 0.3; severity and panic_index both absent score 1.4 and   *)
(* intensity 0.75.                                                         *)
C5_ReferenceValues ==
    [][/\ (PriorityHandled /\ resp'.status = 200) =>
             \A i \in 1..Len(resp'.body) :
                RefPriority(resp'.body[i].report, resp'.body[i].priority_score)
       /\ (HeatmapHandled /\ resp'.status = 200) =>
             \A i \in 1..Len(store) :
                RefIntensity(store[i], resp'.body[i].intensity)]_vars

----------------------------------------------------------------------------
(* C6: get_heatmap_data returns one point per stored report, in retrieval  *)
(* order, and every intensity lies in [0,1], whatever severity and         *)
(* panic_index create_report stored.                                       *)
C6_IntensityInUnitRange ==
    [][(HeatmapHandled /\ resp'.status = 200) =>
          /\ Len(resp'.body) = Len(store)
          /\ \A i \in 1..Len(store) :
                /\ resp'.body[i].hazard_type = store[i].hazard_type
                /\ resp'.body[i].severity = store[i].severity
                /\ resp'.body[i].intensity >= 0
                /\ resp'.body[i].intensity <= 1000]_vars

----------------------------------------------------------------------------
PanicInRange(r) ==
    /\ r.panic_index.k = "int"
    /\ r.panic_index.n >= 0
    /\ r.panic_index.n <= MaxPanic

(* C7: every stored report's panic_index is absent or an integer in        *)
(* [0,100], whatever the classifier returned for it.                       *)
C7_StoredPanicClamped ==
    \A i \in 1..Len(store) :
       store[i].panic_index.k = "null" \/ PanicInRange(store[i])

----------------------------------------------------------------------------
\* panic_index with a missing value counted as 50
RECURSIVE PanicSum50(_)
PanicSum50(reports) ==
    IF reports = <<>> THEN 0
    ELSE (IF Head(reports).panic_index.k = "int"
          THEN Head(reports).panic_index.n ELSE 50) + PanicSum50(Tail(reports))

(* C8: with no write between its reads get_dashboard_stats does not fail   *)
(* on a collection create_report and delete_report produced, its           *)
(* average_panic_index is the mean of panic_index with a missing value     *)
(* counted as 50, rounded to one decimal, and on an empty collection       *)
(* every count and the average are 0.                                      *)
C8_StatsMeanMissingAs50 ==
    [][(StatsReturned /\ ~stats'.dirty) =>
          /\ stats'.status = 200
          /\ stats'.total = Len(store)
          /\ store # <<>> => stats'.avg = Round1(PanicSum50(store), Len(store))
          /\ store = <<>> =>
                /\ stats'.total = 0
                /\ stats'.high = 0 /\ stats'.medium = 0 /\ stats'.low = 0
                /\ stats'.avg = 0]_vars

----------------------------------------------------------------------------
InFlight(id) == \E c \in Slots : creates[c].pc # "idle" /\ creates[c].id = id
Completed(id) == id < nextId /\ ~InFlight(id)

(* C9: every valid create_report request completes, and completes by       *)
(* inserting exactly one report, after its classification has resolved: no *)
(* stored report belongs to a request still in flight, and a failed        *)
(* classification stores Medium, 50 and the submitted hazard_type.         *)
C9_CreateCompletes ==
    /\ [][\A c \in Slots :
             (creates[c].pc # "idle" /\ creates'[c].pc = "idle") =>
                LET f == creates[c]
                    r == [id |-> f.id, hazard_type |-> f.hazard_type,
                          severity |-> f.ai_result.severity,
                          panic_index |-> f.ai_result.panic_index,
                          ai_category |-> f.ai_result.ai_category]
                IN  /\ f.pc = "insert"
                    /\ f.outcome.kind # "none"
                    /\ store' = Append(store, r)
                    /\ r.severity.k # "missing"
                    /\ r.panic_index.k # "missing"
                    /\ r.ai_category.k # "missing"
                    /\ f.outcome.kind \in {"raise", "text", "nonobject"} =>
                          /\ r.severity = JStr("Medium")
                          /\ r.panic_index = JInt(50)
                          /\ r.ai_category = JStr(f.hazard_type)]_vars
    /\ [](\A i \in 1..Len(store) : ~InFlight(store[i].id))
    /\ \A id \in 1..MaxReports : InFlight(id) ~> Completed(id)

----------------------------------------------------------------------------
TypesTotal(types) ==
    LET RECURSIVE Sum(_)
        Sum(S) == IF S = {} THEN 0
                  ELSE LET h == CHOOSE x \in S : TRUE
                       IN  types[h] + Sum(S \ {h})
    IN  Sum(DOMAIN types)

Consistent(f, reports) ==
    /\ f.high + f.medium + f.low <= f.total
    /\ TypesTotal(f.types) = f.total
    /\ (\A i \in 1..Len(reports) : PanicInRange(reports[i])) =>
          (f.avg >= 0 /\ f.avg <= 10 * MaxPanic)

(* C10, as claimed: one get_dashboard_stats response is consistent even    *)
(* when create_report and delete_report land between its reads.            *)
C10_ConsistentUnderWrites ==
    [][(StatsReturned /\ stats'.status = 200) => Consistent(stats', store)]_vars

(* C10, amended: one get_dashboard_stats response is consistent when no    *)
(* create_report insert and no delete_report lands between its first and   *)
(* its last read of the store: high + medium + low <= total_reports, the   *)
(* hazard_types counts sum to total_reports, and average_panic_index lies  *)
(* in [0,100] whenever every stored panic_index lies in [0,100].           *)
C10_ConsistentWithoutWrites ==
    [][(StatsReturned /\ stats'.status = 200 /\ ~stats'.dirty) =>
          Consistent(stats', store)]_vars

\* a response over two reports, one of them High, with no write in between
C10_Witness ==
    /\ stats.pc = "done"
    /\ stats.status = 200
    /\ ~stats.dirty
    /\ stats.total = 2
    /\ stats.high = 1
    /\ TypesTotal(stats.types) = 2

=============================================================================
